---- MODULE Spec2Model ----
(***************************************************************************)
(* A model of the house-price prediction repository:                       *)
(*   - inference.py : class HousePricePredictor (load, validate_input,     *)
(*                    predict, predict_single)                             *)
(*   - app.py       : the Gradio demo (module-level model/pipeline and     *)
(*                    predict_price)                                       *)
(* Python values are modelled as records; a call is one atomic action that *)
(* records the call's argument, what it raised or returned, and the tables *)
(* it handed to pipeline.transform and model.predict.                      *)
(***************************************************************************)
EXTENDS Integers, Sequences, FiniteSets, TLC

VARIABLES
    predictor,   \* the HousePricePredictor instance: its attributes
    everLoaded,  \* history: some load() on the instance completed successfully
    last,        \* the last call on the instance (or on the demo) and its outcome
    app,         \* app.py's module state: not imported, import failed, or model/pipeline
    other,       \* a second HousePricePredictor instance of the same process
    script,      \* one run of a deployment / upload script
    deploy       \* one run of test_deployment.main

vars == <<predictor, everLoaded, last, app, other, script, deploy>>

----------------------------------------------------------------------------
(* Bounds of the checked input universe *)

MaxRows == 2

(* Python's None *)
None == "None"

(* set(list) *)
SetOf(seq) == {seq[i] : i \in DOMAIN seq}

(* What an artifact file can hold: a serialized object ("A" or "B"), bytes  *)
(* joblib cannot deserialize, or nothing at all (the path does not exist).  *)
ArtifactContents == {"A", "B"}
FileStates == {"missing", "corrupt"} \cup ArtifactContents

----------------------------------------------------------------------------
(* inference.py: HousePricePredictor.__init__ *)

feature_names ==
    <<"longitude", "latitude", "housing_median_age", "total_rooms",
      "total_bedrooms", "population", "households", "median_income",
      "ocean_proximity">>

valid_ocean_proximity == <<"<1H OCEAN", "INLAND", "NEAR OCEAN", "NEAR BAY", "ISLAND">>

HousePricePredictor ==
    [model |-> None,
     pipeline |-> None,
     feature_names |-> feature_names,
     valid_ocean_proximity |-> valid_ocean_proximity]

----------------------------------------------------------------------------
(* Exceptions and return values *)

NoExc == [type |-> None, msg |-> "", named |-> {}, listed |-> <<>>]

Raise(type, msg, named, listed) ==
    [type |-> type, msg |-> msg, named |-> named, listed |-> listed]

NoRet == [kind |-> None, items |-> <<>>]

(* The outcome of a call: what it raised (NoExc if it returned), what it    *)
(* returned, and the tables it passed to pipeline.transform / model.predict *)
Outcome(exc, ret, transformed, predicted) ==
    [exc |-> exc, ret |-> ret, transformed |-> transformed, predicted |-> predicted]

Raised(exc) == Outcome(exc, NoRet, <<>>, <<>>)

----------------------------------------------------------------------------
(* The opaque collaborators: the deserialized pipeline and model.  Both are *)
(* deterministic row-wise functions of the bound artifact and the table.    *)

OceanCode(v) ==
    CASE v = "<1H OCEAN" -> 1
      [] v = "INLAND" -> 2
      [] v = "NEAR OCEAN" -> 3
      [] v = "NEAR BAY" -> 4
      [] v = "ISLAND" -> 5
      [] OTHER -> 0

(* pipeline.transform(table): one prepared row per table row, in row order *)
Transform(pipeline, table) ==
    [i \in 1..Len(table.rows) |->
        [by |-> pipeline,
         cat |-> OceanCode(table.rows[i].ocean_proximity),
         pop |-> table.rows[i].population,
         src |-> table.rows[i]]]

PriceOf(model, p) ==
    (IF model = "A" THEN 100000 ELSE 200000)
    + (IF p.by = "A" THEN 0 ELSE 50000)
    + p.cat * 1000
    + (IF p.pop < 0 THEN 0 ELSE p.pop)

(* model.predict(prepared): one price per prepared row, in row order *)
ModelPredict(model, prepared) ==
    [i \in 1..Len(prepared) |-> PriceOf(model, prepared[i])]

(* How the collaborators behave in one call, when the call reaches them *)
Upstream == {"ok", "transform_raises", "model_raises"}

----------------------------------------------------------------------------
(* inference.py: HousePricePredictor.load                                   *)
(* ms, ps: what model_path and pipeline_path hold when load() runs.         *)
(* Result: the instance after the call and what the call raised.            *)

load(self, ms, ps) ==
    IF ms = "missing" THEN
        [self |-> self,
         exc |-> Raise("FileNotFoundError", "Model file not found", {}, <<>>)]
    ELSE IF ps = "missing" THEN
        [self |-> self,
         exc |-> Raise("FileNotFoundError", "Pipeline file not found", {}, <<>>)]
    ELSE IF ms = "corrupt" THEN
        [self |-> self,
         exc |-> Raise("JoblibError", "model", {}, <<>>)]
    ELSE IF ps = "corrupt" THEN
        [self |-> [self EXCEPT !.model = ms],
         exc |-> Raise("JoblibError", "pipeline", {}, <<>>)]
    ELSE
        [self |-> [self EXCEPT !.model = ms, !.pipeline = ps],
         exc |-> NoExc]

(* load() assigns self.model and self.pipeline, attributes that __init__    *)
(* created on the instance (lines 34-35, 50-51): another instance, which    *)
(* has its own, sees nothing of the assignment.  bystander: the other       *)
(* instance; after: the instance load() ran on, after the call.             *)
(* variant: model and pipeline are attributes of the class *)
SeenBy_ClassAttribute(bystander, after) ==
    [bystander EXCEPT !.model = after.model, !.pipeline = after.pipeline]

SeenBy(bystander, after) == bystander

(* inference.py: load_model: a new instance, loaded; the caller gets it     *)
(* only if load() returned.                                                 *)
load_model(ms, ps) == load(HousePricePredictor, ms, ps)

----------------------------------------------------------------------------
(* inference.py: HousePricePredictor.validate_input *)

(* variant: only the first missing field is reported *)
MissingFeatures_First(self, data) ==
    LET all == SetOf(self.feature_names) \ data.columns
        first == CHOOSE i \in DOMAIN self.feature_names :
                    /\ self.feature_names[i] \in all
                    /\ \A j \in 1..(i - 1) : self.feature_names[j] \notin all
    IN  IF all = {} THEN {} ELSE {self.feature_names[first]}

MissingFeatures(self, data) == SetOf(self.feature_names) \ data.columns

(* data['ocean_proximity'].unique() as a set *)
UniqueOcean(data) == {data.rows[i].ocean_proximity : i \in DOMAIN data.rows}

(* variant: only the first row's value is checked *)
InvalidValues_FirstRow(self, data) ==
    IF data.rows = <<>> THEN {}
    ELSE {data.rows[1].ocean_proximity} \ SetOf(self.valid_ocean_proximity)

InvalidValues(self, data) == UniqueOcean(data) \ SetOf(self.valid_ocean_proximity)

(* variant: a table with a column outside the schema, or with a negative    *)
(* population, is rejected as well                                          *)
validate_input_Strict(self, data) ==
    LET missing_features == MissingFeatures(self, data)
        invalid_values == InvalidValues(self, data)
    IN  IF missing_features # {} THEN
            Raise("ValueError", "Missing required features", missing_features, <<>>)
        ELSE IF data.columns \ SetOf(self.feature_names) # {} THEN
            Raise("ValueError", "Unexpected features",
                  data.columns \ SetOf(self.feature_names), <<>>)
        ELSE IF invalid_values # {} THEN
            Raise("ValueError", "Invalid ocean_proximity values",
                  invalid_values, self.valid_ocean_proximity)
        ELSE IF \E i \in DOMAIN data.rows : data.rows[i].population < 0 THEN
            Raise("ValueError", "population out of range", {}, <<>>)
        ELSE NoExc

validate_input(self, data) ==
    LET missing_features == MissingFeatures(self, data)
        invalid_values == InvalidValues(self, data)
    IN  IF missing_features # {} THEN
            Raise("ValueError", "Missing required features", missing_features, <<>>)
        ELSE IF "ocean_proximity" \notin data.columns THEN
            Raise("KeyError", "ocean_proximity", {}, <<>>)
        ELSE IF invalid_values # {} THEN
            Raise("ValueError", "Invalid ocean_proximity values",
                  invalid_values, self.valid_ocean_proximity)
        ELSE NoExc

(* lines 65-75 only read data.columns and data['ocean_proximity']: the      *)
(* caller's table after the call, as an argument of the same shape          *)
(* variant: the columns outside the schema are dropped in place *)
DataAfterValidate_DropExtras(self, data) ==
    [type |-> "DataFrame", elem |-> "-",
     columns |-> data.columns \cap SetOf(self.feature_names), rows |-> data.rows]

DataAfterValidate(self, data) ==
    [type |-> "DataFrame", elem |-> "-", columns |-> data.columns, rows |-> data.rows]

----------------------------------------------------------------------------
(* inference.py: HousePricePredictor.predict                                *)
(* An argument of predict is a record                                       *)
(*   type    : the Python type ("dict", "list", "DataFrame", "tuple", "str")*)
(*   elem    : for a list or tuple, what its elements are ("dict" or        *)
(*             "scalar"); "-" otherwise                                     *)
(*   columns : the keys of the dict(s) / the columns of the DataFrame       *)
(*   rows    : the records, in order                                        *)

Table(columns, rows) == [columns |-> columns, rows |-> rows]

(* pd.DataFrame([data]) for a dict, pd.DataFrame(data) for a list: the      *)
(* columns are the keys of the dicts; a list of scalars gives the single    *)
(* column 0; an empty list gives a table with no columns and no rows.       *)
(* variant: the rows of a list come out in reverse order *)
PdDataFrame_Reversed(data) ==
    IF data.type = "dict" THEN Table(data.columns, data.rows)
    ELSE IF data.rows = <<>> THEN Table({}, <<>>)
    ELSE Table(IF data.elem = "dict" THEN data.columns ELSE {"0"},
               [i \in 1..Len(data.rows) |-> data.rows[Len(data.rows) + 1 - i]])

PdDataFrame(data) ==
    IF data.type = "dict" THEN Table(data.columns, data.rows)
    ELSE IF data.rows = <<>> THEN Table({}, <<>>)
    ELSE IF data.elem = "dict" THEN Table(data.columns, data.rows)
    ELSE Table({"0"}, data.rows)

(* line 115: the not-loaded guard *)
(* variant: the guard written with 'and' instead of 'or' *)
NotLoaded_And(self) == self.model = None /\ self.pipeline = None

NotLoaded(self) == self.model = None \/ self.pipeline = None

(* lines 119-124: isinstance dispatch *)
IsDict(data) == data.type = "dict"
IsList(data) == data.type = "list"
IsDataFrame(data) == data.type = "DataFrame"

Normalize(data) ==
    IF IsDict(data) THEN [exc |-> NoExc, table |-> PdDataFrame(data)]
    ELSE IF IsList(data) THEN [exc |-> NoExc, table |-> PdDataFrame(data)]
    ELSE IF ~IsDataFrame(data) THEN
        [exc |-> Raise("TypeError", "Input must be a DataFrame, dict, or list of dicts",
                       {}, <<>>),
         table |-> Table({}, <<>>)]
    ELSE [exc |-> NoExc, table |-> Table(data.columns, data.rows)]

(* lines 126-135: validate, transform, predict *)
(* variant: invalid rows are dropped and the others predicted *)
Apply_PredictValidRows(self, table, up) ==
    LET ok == {i \in DOMAIN table.rows :
                  table.rows[i].ocean_proximity \in SetOf(self.valid_ocean_proximity)}
        kept == Table(table.columns,
                      [k \in 1..Cardinality(ok) |->
                          table.rows[CHOOSE i \in ok :
                                        Cardinality({j \in ok : j < i}) = k - 1]])
    IN  IF MissingFeatures(self, table) # {} THEN Raised(validate_input(self, table))
        ELSE Outcome(IF Cardinality(ok) = Len(table.rows) THEN NoExc
                     ELSE validate_input(self, table),
                     [kind |-> "ndarray",
                      items |-> ModelPredict(self.model, Transform(self.pipeline, kept))],
                     <<kept>>, <<Transform(self.pipeline, kept)>>)

(* variant: an upstream failure is retried once and, failing again, masked  *)
(* by a fallback value                                                      *)
Apply_RetryThenFallback(self, table, up) ==
    LET invalid == validate_input(self, table)
        prepared_data == Transform(self.pipeline, table)
        predictions == ModelPredict(self.model, prepared_data)
    IN  IF invalid # NoExc THEN Raised(invalid)
        ELSE IF up = "transform_raises" THEN
            Outcome(NoExc, [kind |-> "ndarray", items |-> [i \in DOMAIN table.rows |-> 0]],
                    <<table, table>>, <<>>)
        ELSE IF up = "model_raises" THEN
            Outcome(NoExc, [kind |-> "ndarray", items |-> [i \in DOMAIN table.rows |-> 0]],
                    <<table>>, <<prepared_data, prepared_data>>)
        ELSE
            Outcome(NoExc, [kind |-> "ndarray", items |-> predictions],
                    <<table>>, <<prepared_data>>)

Apply(self, table, up) ==
    LET invalid == validate_input(self, table)
        prepared_data == Transform(self.pipeline, table)
        predictions == ModelPredict(self.model, prepared_data)
    IN  IF invalid # NoExc THEN Raised(invalid)
        ELSE IF up = "transform_raises" THEN
            Outcome(Raise("UpstreamError", "transform", {}, <<>>), NoRet, <<table>>, <<>>)
        ELSE IF up = "model_raises" THEN
            Outcome(Raise("UpstreamError", "predict", {}, <<>>), NoRet,
                    <<table>>, <<prepared_data>>)
        ELSE
            Outcome(NoExc, [kind |-> "ndarray", items |-> predictions],
                    <<table>>, <<prepared_data>>)

predict(self, data, up) ==
    LET normalized == Normalize(data) IN
    IF NotLoaded(self) THEN
        Raised(Raise("RuntimeError", "Model not loaded. Call load() first.", {}, <<>>))
    ELSE IF normalized.exc # NoExc THEN Raised(normalized.exc)
    ELSE Apply(self, normalized.table, up)

----------------------------------------------------------------------------
(* inference.py: HousePricePredictor.predict_single *)

(* lines 159-169: the dict built from the nine arguments *)
(* variant: the dict is built without ocean_proximity *)
SingleRecord_NoOcean(row) ==
    [type |-> "dict", elem |-> "-",
     columns |-> {"longitude", "latitude", "housing_median_age", "total_rooms",
                  "total_bedrooms", "population", "households", "median_income"},
     rows |-> <<row>>]

SingleRecord(row) ==
    [type |-> "dict", elem |-> "-",
     columns |-> {"longitude", "latitude", "housing_median_age", "total_rooms",
                  "total_bedrooms", "population", "households", "median_income",
                  "ocean_proximity"},
     rows |-> <<row>>]

(* float(prediction[0]) *)
FloatOfFirst(ret) == [kind |-> "float", items |-> <<ret.items[1]>>]

predict_single(self, row, up) ==
    LET prediction == predict(self, SingleRecord(row), up) IN
    IF prediction.exc # NoExc THEN prediction
    ELSE [prediction EXCEPT !.ret = FloatOfFirst(prediction.ret)]

----------------------------------------------------------------------------
(* app.py: the demo.  Importing the module downloads and deserializes both  *)
(* artifacts into module-level names; any failure re-raises and the module  *)
(* is never usable.                                                         *)

AppNotImported == [state |-> "unimported", model |-> None, pipeline |-> None]

AppImported(ms, ps) ==
    IF ms \in ArtifactContents /\ ps \in ArtifactContents
    THEN [state |-> "ready", model |-> ms, pipeline |-> ps]
    ELSE [state |-> "failed", model |-> None, pipeline |-> None]

(* f"${prediction:,.2f}" *)
FormatPrice(price) == [kind |-> "str", items |-> <<price>>]

(* lines 50-67: build the one-row frame, transform, predict, format *)
predict_price(a, row, up) ==
    LET input_data == Table(SetOf(feature_names), <<row>>) IN
    IF up = "transform_raises" THEN
        Outcome(Raise("UpstreamError", "transform", {}, <<>>), NoRet, <<input_data>>, <<>>)
    ELSE IF up = "model_raises" THEN
        Outcome(Raise("UpstreamError", "predict", {}, <<>>), NoRet,
                <<input_data>>, <<Transform(a.pipeline, input_data)>>)
    ELSE
        Outcome(NoExc,
                FormatPrice(ModelPredict(a.model, Transform(a.pipeline, input_data))[1]),
                <<input_data>>, <<Transform(a.pipeline, input_data)>>)

----------------------------------------------------------------------------
(* The checked input universe *)

(* the rows records are drawn from: two valid ones (one of them with a      *)
(* negative population) and two with a value outside the categorical domain *)
Row(population, ocean_proximity) ==
    [population |-> population, ocean_proximity |-> ocean_proximity]

Rows ==
    {Row(322, "NEAR BAY"), Row(-1, "INLAND"),
     Row(322, "MOUNTAIN"), Row(322, "INVALID_VALUE")}

RowSeqs(n) == UNION {[1..k -> Rows] : k \in 0..n}

AllColumns == SetOf(feature_names)

(* column sets that lack some required fields, or carry an extra one *)
OtherColumnSets ==
    {AllColumns \ d : d \in (SUBSET {"total_bedrooms", "population", "ocean_proximity"}) \ {{}}}
    \cup {{"longitude", "latitude"}, AllColumns \cup {"extra"}}

Tables ==
    {Table(AllColumns, rs) : rs \in RowSeqs(MaxRows)}
    \cup {Table(c, rs) : c \in OtherColumnSets, rs \in RowSeqs(1)}

Arg(type, elem, columns, rows) ==
    [type |-> type, elem |-> elem, columns |-> columns, rows |-> rows]

NoArg == Arg(None, "-", {}, <<>>)

Inputs ==
    {Arg("DataFrame", "-", t.columns, t.rows) : t \in Tables}
    \cup {Arg("dict", "-", t.columns, t.rows) : t \in {u \in Tables : Len(u.rows) = 1}}
    \cup {Arg("list", "dict", t.columns, t.rows) : t \in {u \in Tables : u.rows # <<>>}}
    \cup {Arg("list", "dict", {}, <<>>)}
    \cup {Arg("list", "scalar", {}, rs) : rs \in RowSeqs(1) \ {<<>>}}
    \cup {Arg("tuple", "dict", AllColumns, rs) : rs \in RowSeqs(1) \ {<<>>}}
    \cup {Arg("str", "-", {}, <<>>)}

(* the demo's dropdown offers the five categories; the function itself      *)
(* takes any string                                                         *)
AppRows ==
    {Row(p, v) : p \in {-1, 322},
                 v \in SetOf(valid_ocean_proximity) \cup {"MOUNTAIN", "INVALID_VALUE"}}

----------------------------------------------------------------------------
(* The deployment / upload scripts.  A run starts with HF_TOKEN unset, set  *)
(* to the empty string, or set; every call to the hosting API returns or    *)
(* raises; every git command returns 0, returns non-zero, or cannot be run  *)
(* (subprocess.run raises).                                                 *)

ScriptNames ==
    {"create_repo.py", "deploy_check.py", "upload_to_hf.py", "upload_new_files.py",
     "push_to_huggingface.py"}

EnvStates == {"unset", "empty", "set"}

ApiResults == {"ok", "raises"}

GitResults == {"rc0", "rc1", "raises"}

(* a line typed at the prompt: its text, possibly padded with blanks; eof:  *)
(* input() raises EOFError                                                  *)
TypedLines ==
    {[eof |-> FALSE, pad |-> FALSE, text |-> "hf_typed"],
     [eof |-> FALSE, pad |-> TRUE, text |-> "hf_typed"],
     [eof |-> FALSE, pad |-> TRUE, text |-> ""],
     [eof |-> FALSE, pad |-> FALSE, text |-> ""],
     [eof |-> TRUE, pad |-> FALSE, text |-> ""]}

(* str.strip() *)
Strip(line) == line.text

(* upload_to_hf.py *)
files_to_upload ==
    <<"house_price_model.joblib", "preprocessing_pipeline.joblib", "README.md",
      "inference.py", "example_usage.py", "test_deployment.py", "requirements.txt",
      ".gitattributes", "LICENSE", "DEPLOYMENT_GUIDE.md", "MODEL_METADATA.md",
      "QUICK_DEPLOY.md", "deploy.ps1", "housing.csv", "housepriceprediction.ipynb">>

(* upload_new_files.py *)
new_files_to_upload == <<"app.py", "requirements_space.txt", "INFERENCE_DEPLOYMENT.md">>

FilesOf(name) ==
    IF name = "upload_to_hf.py" THEN files_to_upload ELSE new_files_to_upload

(* os.environ.get('HF_TOKEN', default) *)
EnvironGet(env, default) ==
    CASE env = "unset" -> default
      [] env = "empty" -> ""
      [] OTHER -> "hf_env"

(* the module-level token of the four small scripts *)
TokenOf(name, env) ==
    IF name = "upload_new_files.py" THEN EnvironGet(env, None)
    ELSE EnvironGet(env, "YOUR_TOKEN_HERE")

(* push_to_huggingface.get_token: the token, whether the prompt was shown,  *)
(* and whether input() raised                                               *)
(* variant: the prompt is shown only when HF_TOKEN is unset *)
get_token_PromptOnlyIfUnset(env, line) ==
    LET token == EnvironGet(env, None) IN
    IF token = None THEN
        [prompted |-> TRUE, raised |-> line.eof,
         token |-> IF line.eof THEN None ELSE Strip(line)]
    ELSE [prompted |-> FALSE, raised |-> FALSE, token |-> token]

get_token(env, line) ==
    LET token == EnvironGet(env, None) IN
    IF token = None \/ token = "" THEN
        [prompted |-> TRUE, raised |-> line.eof,
         token |-> IF line.eof THEN None ELSE Strip(line)]
    ELSE [prompted |-> FALSE, raised |-> FALSE, token |-> token]

(* One run: the script, where it is, the token it uses, the calls it made   *)
(* with their results, the upload loop's position and the lines it printed  *)
(* per kind, and the exit code once pc = "done"                             *)
ScriptIdle ==
    [name |-> None, pc |-> "idle", env |-> "unset", token |-> None, prompted |-> FALSE,
     trace |-> <<>>, i |-> 0, sent |-> 0, errors |-> 0, skipped |-> 0,
     printed |-> {}, code |-> 0]

Step(step, result) == [step |-> step, result |-> result]

Did(s, step, result) == [s EXCEPT !.trace = Append(@, Step(step, result))]

Exit(s, code) == [s EXCEPT !.pc = "done", !.code = code]

(* the first call of each script after the token is read *)
FirstPc(name) ==
    CASE name = "create_repo.py" -> "create_repo"
      [] name \in {"deploy_check.py", "push_to_huggingface.py"} -> "whoami"
      [] OTHER -> "upload"

(* `except Exception`: create_repo.py and deploy_check.py print and fall    *)
(* off the end of the module; push_to_huggingface.main calls sys.exit(1)    *)
OnException(s) ==
    Exit([s EXCEPT !.printed = @ \cup {"Error"}],
         IF s.name = "push_to_huggingface.py" THEN 1 ELSE 0)

----------------------------------------------------------------------------
(* test_deployment.py: the six checks as functions of what they find, and  *)
(* one run of main                                                          *)

required_packages == <<"scikit-learn", "pandas", "numpy", "joblib">>

required_files ==
    <<"house_price_model.joblib", "preprocessing_pipeline.joblib", "inference.py",
      "README.md", "requirements.txt", "LICENSE", ".gitattributes", "example_usage.py">>

(* missing: the packages whose import raised ImportError *)
test_imports(missing) == missing = {}

(* missing: the required files that do not exist *)
test_files(missing) == missing = {}

(* importable: `from inference import HousePricePredictor` succeeded.       *)
(* Result: success and the predictor returned (the unloaded instance        *)
(* stands for None, which main never uses).                                 *)
(* variant: a failing load() is reported as a success *)
test_model_loading_Optimistic(importable, ms, ps) ==
    [success |-> TRUE, predictor |-> load(HousePricePredictor, ms, ps).self]

test_model_loading(importable, ms, ps) ==
    LET r == load(HousePricePredictor, ms, ps) IN
    IF importable /\ r.exc = NoExc THEN [success |-> TRUE, predictor |-> r.self]
    ELSE [success |-> FALSE, predictor |-> HousePricePredictor]

(* test_prediction's three cases *)
test_cases == <<Row(322, "NEAR BAY"), Row(1800, "INLAND"), Row(1200, "<1H OCEAN")>>

(* a predict call made by a check: on what predictor state, and its outcome *)
Attempt(self, data, up) ==
    [notLoaded |-> NotLoaded(self), out |-> predict(self, data, up)]

(* ups: how the collaborators behave in each of the three calls *)
test_prediction(self, ups) ==
    LET calls == [k \in DOMAIN test_cases |->
                    Attempt(self, Arg("dict", "-", AllColumns, <<test_cases[k]>>), ups[k])]
    IN  [passed |-> \A k \in DOMAIN calls : calls[k].out.exc = NoExc,
         uncaught |-> FALSE, calls |-> calls]

test_batch_prediction(self, up) ==
    LET call == Attempt(self, Arg("DataFrame", "-", AllColumns,
                                  <<Row(322, "NEAR BAY"), Row(1800, "INLAND")>>), up)
    IN  [passed |-> call.out.exc = NoExc, uncaught |-> FALSE, calls |-> <<call>>]

(* only ValueError is caught: any other exception leaves the function *)
test_validation(self) ==
    LET first == Attempt(self, Arg("DataFrame", "-", {"longitude", "latitude"},
                                   <<Row(322, "NEAR BAY")>>), "ok")
        second == Attempt(self, Arg("DataFrame", "-", AllColumns,
                                    <<Row(322, "INVALID_VALUE")>>), "ok")
    IN  IF first.out.exc = NoExc THEN
            [passed |-> FALSE, uncaught |-> FALSE, calls |-> <<first>>]
        ELSE IF first.out.exc.type # "ValueError" THEN
            [passed |-> FALSE, uncaught |-> TRUE, calls |-> <<first>>]
        ELSE IF second.out.exc = NoExc THEN
            [passed |-> FALSE, uncaught |-> FALSE, calls |-> <<first, second>>]
        ELSE IF second.out.exc.type # "ValueError" THEN
            [passed |-> FALSE, uncaught |-> TRUE, calls |-> <<first, second>>]
        ELSE [passed |-> TRUE, uncaught |-> FALSE, calls |-> <<first, second>>]

(* One run of main: where it is, the results list, the predictor test 3     *)
(* returned, the predict calls made so far, the summary line printed, and   *)
(* the exit code once pc = "done"                                           *)
DeployIdle ==
    [pc |-> "test_imports", results |-> <<>>, predictor |-> HousePricePredictor,
     files |-> <<"missing", "missing">>, calls |-> <<>>, printed |-> {}, code |-> 0]

(* results.append((name, passed)) *)
Record(d, name, passed) ==
    [d EXCEPT !.results = Append(@, [name |-> name, passed |-> passed])]

(* `if not results[-1][1]: sys.exit(1)` after each of the first three *)
ExitUnless(d, passed, pc) ==
    IF passed THEN [d EXCEPT !.pc = pc] ELSE [d EXCEPT !.pc = "done", !.code = 1]

(* lines 298-324: all(...), the summary line, and the exit *)
Summary(d) ==
    IF \A k \in DOMAIN d.results : d.results[k].passed THEN
        [d EXCEPT !.pc = "done", !.code = 0, !.printed = @ \cup {"ALL TESTS PASSED"}]
    ELSE [d EXCEPT !.pc = "done", !.code = 1, !.printed = @ \cup {"SOME TESTS FAILED"}]

(* an exception no check catches: traceback, exit code 1 *)
Uncaught(d) == [d EXCEPT !.pc = "done", !.code = 1]

----------------------------------------------------------------------------
(* The state machine *)

(* after: the caller's table as the call left it, where that is observed    *)
(* (validate_input); NoArg elsewhere                                        *)
Call(op, arg, files, up, out) ==
    [op |-> op, arg |-> arg, files |-> files, up |-> up, out |-> out, after |-> NoArg]

Init ==
    /\ predictor = HousePricePredictor
    /\ everLoaded = FALSE
    /\ last = Call("__init__", NoArg, <<>>, "ok", Raised(NoExc))
    /\ app = AppNotImported
    /\ other = HousePricePredictor
    /\ script = ScriptIdle
    /\ deploy = DeployIdle

Load ==
    \E ms \in FileStates, ps \in FileStates :
        LET r == load(predictor, ms, ps) IN
        /\ predictor' = r.self
        /\ everLoaded' = (everLoaded \/ r.exc = NoExc)
        /\ last' = Call("load", NoArg, <<ms, ps>>, "ok", Raised(r.exc))
        /\ other' = SeenBy(other, r.self)
        /\ UNCHANGED <<app, script, deploy>>

ValidateInputOn(tables) ==
    \E t \in tables :
        /\ last' = [Call("validate_input", Arg("DataFrame", "-", t.columns, t.rows),
                         <<>>, "ok", Raised(validate_input(predictor, t)))
                        EXCEPT !.after = DataAfterValidate(predictor, t)]
        /\ UNCHANGED <<predictor, everLoaded, app, other, script, deploy>>

ValidateInput == ValidateInputOn(Tables)

(* The collaborators' behaviour is an input of a call only if the call     *)
(* gets as far as pipeline.transform.                                       *)
UpstreamOf(out) == IF out.transformed = <<>> THEN {"ok"} ELSE Upstream

PredictOn(inputs) ==
    \E data \in inputs :
      \E up \in UpstreamOf(predict(predictor, data, "ok")) :
        /\ last' = Call("predict", data, <<>>, up, predict(predictor, data, up))
        /\ UNCHANGED <<predictor, everLoaded, app, other, script, deploy>>

Predict == PredictOn(Inputs)

PredictSingle ==
    \E row \in Rows :
      \E up \in UpstreamOf(predict_single(predictor, row, "ok")) :
        /\ last' = Call("predict_single", SingleRecord(row), <<>>, up,
                        predict_single(predictor, row, up))
        /\ UNCHANGED <<predictor, everLoaded, app, other, script, deploy>>

AppImport ==
    \E ms \in FileStates, ps \in FileStates :
        /\ app.state = "unimported"
        /\ app' = AppImported(ms, ps)
        /\ last' = Call("import app", NoArg, <<ms, ps>>, "ok", Raised(NoExc))
        /\ UNCHANGED <<predictor, everLoaded, other, script, deploy>>

PredictPrice ==
    \E row \in AppRows, up \in Upstream :
        /\ app.state = "ready"
        /\ last' = Call("predict_price", Arg("args", "-", AllColumns, <<row>>), <<>>, up,
                        predict_price(app, row, up))
        /\ UNCHANGED <<predictor, everLoaded, app, other, script, deploy>>

Next == Load \/ ValidateInput \/ Predict \/ PredictSingle

Spec == Init /\ [][Next]_vars

NextApp == AppImport \/ PredictPrice

(* Two instances in one process: load() on either, load_model() replacing   *)
(* the second, and calls on the first with a few arguments.                 *)
FewTables ==
    {Table(c, <<r>>) : c \in {AllColumns, AllColumns \ {"population"}}, r \in Rows}

FewInputs ==
    {Arg("DataFrame", "-", t.columns, t.rows) : t \in FewTables}
    \cup {Arg("str", "-", {}, <<>>)}

LoadOther ==
    \E ms \in FileStates, ps \in FileStates :
        LET r == load(other, ms, ps) IN
        /\ other' = r.self
        /\ predictor' = SeenBy(predictor, r.self)
        /\ last' = Call("other.load", NoArg, <<ms, ps>>, "ok", Raised(r.exc))
        /\ UNCHANGED <<everLoaded, app, script, deploy>>

LoadModel ==
    \E ms \in FileStates, ps \in FileStates :
        LET r == load_model(ms, ps) IN
        /\ other' = IF r.exc = NoExc THEN r.self ELSE other
        /\ predictor' = SeenBy(predictor, r.self)
        /\ last' = Call("load_model", NoArg, <<ms, ps>>, "ok", Raised(r.exc))
        /\ UNCHANGED <<everLoaded, app, script, deploy>>

ValidateInputFew == ValidateInputOn(FewTables)

PredictFew == PredictOn(FewInputs)

NextTwo ==
    Load \/ LoadOther \/ LoadModel \/ ValidateInputFew \/ PredictFew \/ PredictSingle

SpecTwo == Init /\ [][NextTwo]_vars

SpecApp == Init /\ [][NextApp]_vars

(* A script run.  AcquireToken: the module's token line, or main's          *)
(* get_token() (an EOFError at the prompt is outside main's try: traceback, *)
(* exit code 1).                                                            *)
AcquireToken ==
    \E name \in ScriptNames, env \in EnvStates, line \in TypedLines :
        /\ script.pc = "idle"
        /\ script' =
             IF name = "push_to_huggingface.py" THEN
                LET t == get_token(env, line)
                    s == [script EXCEPT !.name = name, !.env = env,
                                        !.prompted = t.prompted, !.token = t.token]
                IN  IF t.raised THEN Exit(Did(s, "get_token", "raises"), 1)
                    ELSE [Did(s, "get_token", "ok") EXCEPT !.pc = FirstPc(name)]
             ELSE [script EXCEPT !.name = name, !.env = env,
                                 !.token = TokenOf(name, env), !.pc = FirstPc(name),
                                 !.i = IF FirstPc(name) = "upload" THEN 1 ELSE 0]
        /\ UNCHANGED <<predictor, everLoaded, last, app, other, deploy>>

Whoami ==
    \E r \in ApiResults :
        /\ script.pc = "whoami"
        /\ script' = IF r = "raises" THEN OnException(Did(script, "whoami", r))
                     ELSE [Did(script, "whoami", r) EXCEPT !.pc = "create_repo"]
        /\ UNCHANGED <<predictor, everLoaded, last, app, other, deploy>>

CreateRepo ==
    \E r \in ApiResults :
        /\ script.pc = "create_repo"
        /\ script' =
             IF r = "raises" THEN OnException(Did(script, "create_repo", r))
             ELSE IF script.name = "push_to_huggingface.py" THEN
                [Did(script, "create_repo", r) EXCEPT !.pc = "git remote remove"]
             ELSE Exit(Did(script, "create_repo", r), 0)
        /\ UNCHANGED <<predictor, everLoaded, last, app, other, deploy>>

(* one iteration of the upload loop, and the end of the script after the    *)
(* last one                                                                 *)
UploadFile ==
    \E exists \in BOOLEAN, r \in ApiResults :
        /\ script.pc = "upload"
        /\ LET s == [script EXCEPT
                        !.i = @ + 1,
                        !.sent = IF exists /\ r = "ok" THEN @ + 1 ELSE @,
                        !.errors = IF exists /\ r = "raises" THEN @ + 1 ELSE @,
                        !.skipped = IF ~exists THEN @ + 1 ELSE @]
           IN  script' = IF script.i = Len(FilesOf(script.name)) THEN
                            Exit([s EXCEPT !.printed = @ \cup {"Upload complete!"}], 0)
                         ELSE s
        /\ UNCHANGED <<predictor, everLoaded, last, app, other, deploy>>

GitRemoteRemove ==
    \E r \in GitResults :
        /\ script.pc = "git remote remove"
        /\ script' = IF r = "raises" THEN OnException(Did(script, "git remote remove", r))
                     ELSE [Did(script, "git remote remove", r) EXCEPT !.pc = "git remote add"]
        /\ UNCHANGED <<predictor, everLoaded, last, app, other, deploy>>

GitRemoteAdd ==
    \E r \in GitResults :
        /\ script.pc = "git remote add"
        /\ script' = IF r = "raises" THEN OnException(Did(script, "git remote add", r))
                     ELSE [Did(script, "git remote add", r) EXCEPT !.pc = "git push"]
        /\ UNCHANGED <<predictor, everLoaded, last, app, other, deploy>>

GitPush ==
    \E r \in GitResults :
        /\ script.pc = "git push"
        /\ script' =
             IF r = "raises" THEN OnException(Did(script, "git push", r))
             ELSE IF r = "rc0" THEN
                Exit([Did(script, "git push", r) EXCEPT !.printed = @ \cup {"SUCCESS"}], 0)
             ELSE Exit([Did(script, "git push", r) EXCEPT !.printed = @ \cup {"Push failed"}], 1)
        /\ UNCHANGED <<predictor, everLoaded, last, app, other, deploy>>

NextScripts ==
    AcquireToken \/ Whoami \/ CreateRepo \/ UploadFile
    \/ GitRemoteRemove \/ GitRemoteAdd \/ GitPush

SpecScripts == Init /\ [][NextScripts]_vars

(* A run of test_deployment.main, one step per check *)
TestImports ==
    \E missing \in SUBSET SetOf(required_packages) :
        /\ deploy.pc = "test_imports"
        /\ deploy' = ExitUnless(Record(deploy, "Required packages", test_imports(missing)),
                                test_imports(missing), "test_files")
        /\ UNCHANGED <<predictor, everLoaded, last, app, other, script>>

(* ms, ps: what the two artifact files hold, if they exist *)
TestFiles ==
    \E missing \in SUBSET {"house_price_model.joblib", "preprocessing_pipeline.joblib",
                           "README.md"},
       ms \in FileStates \ {"missing"}, ps \in FileStates \ {"missing"} :
        /\ deploy.pc = "test_files"
        /\ deploy' =
             ExitUnless(
                Record([deploy EXCEPT !.files =
                          <<IF "house_price_model.joblib" \in missing THEN "missing" ELSE ms,
                            IF "preprocessing_pipeline.joblib" \in missing THEN "missing"
                            ELSE ps>>],
                       "Required files", test_files(missing)),
                test_files(missing), "test_model_loading")
        /\ UNCHANGED <<predictor, everLoaded, last, app, other, script>>

TestModelLoading ==
    \E importable \in BOOLEAN :
        LET r == test_model_loading(importable, deploy.files[1], deploy.files[2]) IN
        /\ deploy.pc = "test_model_loading"
        /\ deploy' = ExitUnless(Record([deploy EXCEPT !.predictor = r.predictor],
                                       "Model loading", r.success),
                                r.success, "test_prediction")
        /\ UNCHANGED <<predictor, everLoaded, last, app, other, script>>

TestPrediction ==
    \E ups \in [DOMAIN test_cases -> Upstream] :
        LET r == test_prediction(deploy.predictor, ups) IN
        /\ deploy.pc = "test_prediction"
        /\ deploy' = [Record(deploy, "Predictions", r.passed)
                        EXCEPT !.calls = @ \o r.calls, !.pc = "test_batch_prediction"]
        /\ UNCHANGED <<predictor, everLoaded, last, app, other, script>>

TestBatchPrediction ==
    \E up \in Upstream :
        LET r == test_batch_prediction(deploy.predictor, up) IN
        /\ deploy.pc = "test_batch_prediction"
        /\ deploy' = [Record(deploy, "Batch prediction", r.passed)
                        EXCEPT !.calls = @ \o r.calls, !.pc = "test_validation"]
        /\ UNCHANGED <<predictor, everLoaded, last, app, other, script>>

(* test 6 and the summary that follows it *)
TestValidation ==
    LET r == test_validation(deploy.predictor)
        d == [deploy EXCEPT !.calls = @ \o r.calls]
    IN  /\ deploy.pc = "test_validation"
        /\ deploy' = IF r.uncaught THEN Uncaught(d)
                     ELSE Summary(Record(d, "Input validation", r.passed))
        /\ UNCHANGED <<predictor, everLoaded, last, app, other, script>>

NextDeploy ==
    TestImports \/ TestFiles \/ TestModelLoading \/ TestPrediction
    \/ TestBatchPrediction \/ TestValidation

SpecDeploy == Init /\ [][NextDeploy]_vars

----------------------------------------------------------------------------
(* Vocabulary of the properties, stated independently of the code above     *)

SchemaFields ==
    {"longitude", "latitude", "housing_median_age", "total_rooms", "total_bedrooms",
     "population", "households", "median_income", "ocean_proximity"}

CategoricalDomain == {"<1H OCEAN", "INLAND", "NEAR OCEAN", "NEAR BAY", "ISLAND"}

ModelBound == predictor.model # None
TransformBound == predictor.pipeline # None
Loaded == ModelBound /\ TransformBound

(* the argument is a mapping, a list of mappings, or a table: its records   *)
(* and their field names are arg.rows and arg.columns                       *)
Tabular(arg) ==
    \/ arg.type \in {"dict", "DataFrame"}
    \/ arg.type = "list" /\ arg.elem = "dict"

OceanOf(arg) == {arg.rows[i].ocean_proximity : i \in DOMAIN arg.rows}

ValidBatch(arg) ==
    /\ Tabular(arg)
    /\ SchemaFields \subseteq arg.columns
    /\ OceanOf(arg) \subseteq CategoricalDomain

NothingApplied(out) ==
    /\ out.ret = NoRet
    /\ out.transformed = <<>>
    /\ out.predicted = <<>>

IsPredictCall == last.op \in {"predict", "predict_single"}

(* the call went through validate_input: directly, or inside predict on a   *)
(* loaded facade with a tabular argument                                    *)
Validated ==
    \/ last.op = "validate_input"
    \/ last.op = "predict" /\ Loaded /\ Tabular(last.arg)

----------------------------------------------------------------------------
(* C1: on an instance on which no load() has ever completed successfully,   *)
(* every predict / predict_single call, whatever its argument, raises       *)
(* RuntimeError (not loaded) and hands nothing to pipeline.transform or     *)
(* model.predict.                                                           *)
C1_NotLoadedGuard ==
    (~everLoaded /\ IsPredictCall) =>
        /\ last.out.exc.type = "RuntimeError"
        /\ NothingApplied(last.out)

(* reached: predict with a valid batch on an instance whose only load()     *)
(* failed after binding the model                                           *)
C1_Witness ==
    /\ ~everLoaded
    /\ ModelBound
    /\ last.op = "predict"
    /\ ValidBatch(last.arg)
    /\ last.out.exc.type = "RuntimeError"

(* C2: after a load() call that fails -- an artifact path does not exist,   *)
(* or deserializing raises -- both slots are None.  Stated here for its     *)
(* plainest case, an instance that no earlier load() has bound.             *)
C2_FailedLoadLeavesUnbound ==
    (last.op = "load" /\ last.out.exc # NoExc /\ ~everLoaded) =>
        (predictor.model = None /\ predictor.pipeline = None)

(* C3: a table lacking schema fields is rejected by validate_input (and by  *)
(* predict on a loaded facade) with a ValueError that names exactly the     *)
(* schema fields the table does not have.                                   *)
C3_MissingFieldsNamedExactly ==
    (Validated /\ ~(SchemaFields \subseteq last.arg.columns)) =>
        /\ last.out.exc.type = "ValueError"
        /\ last.out.exc.msg = "Missing required features"
        /\ last.out.exc.named = SchemaFields \ last.arg.columns
        /\ NothingApplied(last.out)

C3_Witness ==
    /\ last.op = "predict"
    /\ Loaded
    /\ last.arg.type = "dict"
    /\ SchemaFields \ last.arg.columns = {"total_bedrooms", "population"}
    /\ last.out.exc.named = {"total_bedrooms", "population"}

(* C4: a table with all schema columns and some out-of-domain               *)
(* ocean_proximity is rejected with a ValueError that reports exactly the   *)
(* set of distinct out-of-domain values present, and lists the five allowed *)
(* values.                                                                  *)
C4_InvalidValuesNamedExactly ==
    (/\ Validated
     /\ SchemaFields \subseteq last.arg.columns
     /\ ~(OceanOf(last.arg) \subseteq CategoricalDomain)) =>
        /\ last.out.exc.type = "ValueError"
        /\ last.out.exc.msg = "Invalid ocean_proximity values"
        /\ last.out.exc.named = OceanOf(last.arg) \ CategoricalDomain
        /\ Len(last.out.exc.listed) = 5
        /\ SetOf(last.out.exc.listed) = CategoricalDomain

C4_Witness ==
    /\ last.op = "predict"
    /\ Loaded
    /\ Len(last.arg.rows) = 2
    /\ last.out.exc.named = {"MOUNTAIN", "INVALID_VALUE"}
    /\ SetOf(last.out.exc.listed) = CategoricalDomain

(* C5: no partial-batch success: a predict call on a batch with all schema  *)
(* columns in which some row, in any position, has an out-of-domain         *)
(* ocean_proximity raises, returns no prediction, and applies neither the   *)
(* Transform nor the Model.                                                 *)
C5_NoPartialBatch ==
    (/\ last.op = "predict"
     /\ Tabular(last.arg)
     /\ SchemaFields \subseteq last.arg.columns
     /\ ~(OceanOf(last.arg) \subseteq CategoricalDomain)) =>
        /\ last.out.exc # NoExc
        /\ NothingApplied(last.out)

(* reached: a loaded facade, a two-row batch whose first row is valid and   *)
(* whose second is not                                                      *)
C5_Witness ==
    /\ last.op = "predict"
    /\ Loaded
    /\ Len(last.arg.rows) = 2
    /\ SchemaFields \subseteq last.arg.columns
    /\ last.arg.rows[1].ocean_proximity \in CategoricalDomain
    /\ last.arg.rows[2].ocean_proximity \notin CategoricalDomain
    /\ last.out.exc.type = "ValueError"

(* C6: on a loaded facade, predict on a valid batch of N rows (a dict, a    *)
(* list of dicts, a table) whose collaborators do not raise returns exactly *)
(* N results, result i being what the bound Transform and Model give for    *)
(* row i: no reordering, deduplication or filtering, and the result is a    *)
(* function of the bindings and the input alone.                            *)
PredictionFor(row) ==
    ModelPredict(predictor.model,
                 Transform(predictor.pipeline, Table(SchemaFields, <<row>>)))[1]

C6_OrderPreserved ==
    (last.op = "predict" /\ Loaded /\ ValidBatch(last.arg) /\ last.up = "ok") =>
        /\ last.out.exc = NoExc
        /\ last.out.ret.kind = "ndarray"
        /\ Len(last.out.ret.items) = Len(last.arg.rows)
        /\ \A i \in DOMAIN last.arg.rows :
              last.out.ret.items[i] = PredictionFor(last.arg.rows[i])

(* reached: a list of two different valid records, whose two predictions    *)
(* differ                                                                   *)
C6_Witness ==
    /\ last.op = "predict"
    /\ Loaded
    /\ last.arg.type = "list"
    /\ ValidBatch(last.arg)
    /\ Len(last.out.ret.items) = 2
    /\ last.arg.rows[1] # last.arg.rows[2]
    /\ last.out.ret.items[1] # last.out.ret.items[2]

(* C7: predict_single(fields...) has the outcome of predict([record])[0] on *)
(* the same bindings and the same collaborator behaviour: the same value if *)
(* the batch call returns, the same error if it raises.                     *)
C7_SingleEqualsBatch ==
    last.op = "predict_single" =>
        LET batch == predict(predictor,
                             Arg("list", "dict", SchemaFields, last.arg.rows), last.up)
        IN  IF batch.exc = NoExc
            THEN /\ last.out.exc = NoExc
                 /\ last.out.ret.kind = "float"
                 /\ last.out.ret.items = <<batch.ret.items[1]>>
            ELSE /\ last.out.exc = batch.exc
                 /\ last.out.ret = NoRet

C7_Witness ==
    /\ last.op = "predict_single"
    /\ Loaded
    /\ last.arg.rows[1].ocean_proximity = "INLAND"
    /\ last.out.exc = NoExc
    /\ last.out.ret.kind = "float"

(* C8 (as claimed): on a loaded facade predict accepts a mapping, a         *)
(* sequence (list) of mappings and a table; every other argument, a list of *)
(* non-mappings and a non-list sequence included, is rejected with          *)
(* TypeError and no partial result.                                         *)
AcceptedShape(arg) ==
    \/ arg.type \in {"dict", "DataFrame"}
    \/ arg.type = "list" /\ (arg.elem = "dict" \/ arg.rows = <<>>)

C8_OtherShapesRaiseTypeError ==
    (last.op = "predict" /\ Loaded /\ ~AcceptedShape(last.arg)) =>
        /\ last.out.exc.type = "TypeError"
        /\ NothingApplied(last.out)

(* C9 (as claimed): no row with an out-of-domain ocean_proximity is ever    *)
(* handed to model.predict, by the facade or by the demo's predict_price.   *)
C9_ModelNeverSeesInvalidCategory ==
    \A k \in DOMAIN last.out.predicted :
        \A i \in DOMAIN last.out.predicted[k] :
            last.out.predicted[k][i].src.ocean_proximity \in CategoricalDomain

(* C10 (as claimed): the facade is always either Unloaded (both slots None) *)
(* or Loaded (both bound); once a load() has succeeded both slots stay      *)
(* bound; a successful load() binds both slots to what it deserialized.     *)
C10_TwoLifecycleStates ==
    /\ (~ModelBound /\ ~TransformBound) \/ Loaded
    /\ everLoaded => Loaded
    /\ (last.op = "load" /\ last.out.exc = NoExc) =>
          (predictor.model = last.files[1] /\ predictor.pipeline = last.files[2])

(* The part of C10 that the code does keep: Loaded is terminal and a        *)
(* successful load() rebinds.                                               *)
LoadedIsTerminal ==
    /\ everLoaded => Loaded
    /\ (last.op = "load" /\ last.out.exc = NoExc) =>
          (predictor.model = last.files[1] /\ predictor.pipeline = last.files[2])

(* C11: only load() changes an instance's bindings: validate_input,         *)
(* predict and predict_single, returning or raising, leave the instance     *)
(* (both slots, Feature Schema, Categorical Domain) as it was; a load() on  *)
(* one instance, and load_model(), leave every other instance as it was;    *)
(* load() itself leaves the schema and the domain alone.                    *)
C11_OnlyLoadRebinds ==
    [][/\ last'.op \in {"validate_input", "predict", "predict_single"} =>
            (predictor' = predictor /\ other' = other)
       /\ last'.op = "load" =>
            /\ other' = other
            /\ predictor'.feature_names = predictor.feature_names
            /\ predictor'.valid_ocean_proximity = predictor.valid_ocean_proximity
       /\ last'.op \in {"other.load", "load_model"} => predictor' = predictor
      ]_vars

(* reached: the first instance bound to A/A, then the second loaded to B/B  *)
C11_Witness ==
    /\ last.op = "other.load"
    /\ last.out.exc = NoExc
    /\ other.model = "B" /\ other.pipeline = "B"
    /\ predictor.model = "A" /\ predictor.pipeline = "A"

(* the error the failing collaborator raised in this call *)
UpstreamErrorOf(up) ==
    IF up = "transform_raises" THEN Raise("UpstreamError", "transform", {}, <<>>)
    ELSE Raise("UpstreamError", "predict", {}, <<>>)

(* C12: when pipeline.transform or model.predict raises during predict on   *)
(* validated input, the caller gets exactly that error and no value;        *)
(* transform was invoked once and the model at most once; and the model     *)
(* was not invoked at all if transform raised.                              *)
C12_UpstreamErrorPropagates ==
    (IsPredictCall /\ Loaded /\ ValidBatch(last.arg) /\ last.up # "ok") =>
        /\ last.out.exc = UpstreamErrorOf(last.up)
        /\ last.out.ret = NoRet
        /\ Len(last.out.transformed) = 1
        /\ Len(last.out.predicted) <= 1
        /\ last.up = "transform_raises" => last.out.predicted = <<>>
        /\ last.up = "model_raises" => Len(last.out.predicted) = 1

(* reached: the model raises on a validated two-row batch *)
C12_Witness ==
    /\ last.op = "predict"
    /\ Loaded /\ ValidBatch(last.arg)
    /\ Len(last.arg.rows) = 2
    /\ last.up = "model_raises"
    /\ last.out.exc = UpstreamErrorOf("model_raises")

(* C13: a table that has all nine schema columns and only in-domain         *)
(* ocean_proximity values passes validation whatever further columns it     *)
(* has and whatever its numeric values are: validate_input returns, and     *)
(* predict hands exactly those columns and rows to pipeline.transform.      *)
C13_ExtrasAndNumbersTolerated ==
    (Validated /\ ValidBatch(last.arg)) =>
        /\ last.op = "validate_input" => last.out.exc = NoExc
        /\ last.op = "predict" =>
              last.out.transformed = <<Table(last.arg.columns, last.arg.rows)>>

(* reached: predict on a table with an extra column and population -1 *)
C13_Witness ==
    /\ last.op = "predict"
    /\ Loaded /\ ValidBatch(last.arg)
    /\ last.arg.columns \ SchemaFields # {}
    /\ \E i \in DOMAIN last.arg.rows : last.arg.rows[i].population < 0
    /\ last.out.exc = NoExc
    /\ Len(last.out.transformed) = 1

(* C16: validate_input never changes the table it is given: whether it     *)
(* returns or raises (missing fields, out-of-domain values), the caller's   *)
(* table has the same columns, rows and values after the call as before.    *)
C16_ValidateLeavesTableAlone ==
    last.op = "validate_input" => last.after = last.arg

(* reached: a validate_input call that raised on a table with an extra      *)
(* column and an out-of-domain value                                        *)
C16_Witness ==
    /\ last.op = "validate_input"
    /\ last.arg.columns \ SchemaFields # {}
    /\ last.out.exc # NoExc
    /\ last.out.exc.named = {"MOUNTAIN"}
    /\ last.after = last.arg

(* What a predict call raised, by the classes of the error taxonomy *)
ErrorClass(exc) ==
    CASE exc = NoExc -> "none"
      [] exc # NoExc /\ exc.type = "RuntimeError" -> "not-loaded"
      [] exc # NoExc /\ exc.type = "TypeError" -> "shape"
      [] exc # NoExc /\ exc.type = "ValueError"
            /\ exc.msg = "Missing required features" -> "missing-field"
      [] exc # NoExc /\ exc.type = "ValueError"
            /\ exc.msg = "Invalid ocean_proximity values" -> "out-of-domain"
      [] OTHER -> "other"

(* The first defect of a call in the order not-loaded, shape, missing       *)
(* field, out-of-domain value; shapeOk says which arguments have no shape   *)
(* defect                                                                   *)
FirstDefect(arg, shapeOk) ==
    IF ~Loaded THEN "not-loaded"
    ELSE IF ~shapeOk THEN "shape"
    ELSE IF ~(SchemaFields \subseteq arg.columns) THEN "missing-field"
    ELSE IF ~(OceanOf(arg) \subseteq CategoricalDomain) THEN "out-of-domain"
    ELSE "none"

(* C17 (as claimed): with working collaborators, predict raises the error   *)
(* of the first defect in the order not-loaded, shape (TypeError), missing  *)
(* field, out-of-domain value, and nothing else; so a table lacking a       *)
(* numeric field and holding an out-of-domain value raises the missing-     *)
(* field error, and so does a table lacking the ocean_proximity column.     *)
C17_ErrorPrecedence ==
    (last.op = "predict" /\ last.up = "ok") =>
        ErrorClass(last.out.exc) = FirstDefect(last.arg, AcceptedShape(last.arg))

(* The part of C17 that the code does keep: the same precedence when the    *)
(* shape defect is read as the code tests it, by the argument's type alone. *)
PrecedenceByArgumentType ==
    (last.op = "predict" /\ last.up = "ok") =>
        ErrorClass(last.out.exc)
            = FirstDefect(last.arg, last.arg.type \in {"dict", "list", "DataFrame"})

(* C18 (as claimed): the model slot is bound iff the pipeline slot is.      *)
C18_SlotsBoundTogether == ModelBound <=> TransformBound

(* What went wrong in a script run *)
AuthenticationFailed ==
    \E k \in DOMAIN script.trace : script.trace[k] = Step("whoami", "raises")

RepositoryCreationFailed ==
    \E k \in DOMAIN script.trace : script.trace[k] = Step("create_repo", "raises")

TransferFailed ==
    \/ script.errors > 0
    \/ \E k \in DOMAIN script.trace :
          script.trace[k].step = "git push" /\ script.trace[k].result # "rc0"

Exited == script.pc = "done"

(* C14 (as claimed): a script run that ends with exit code 0 had its        *)
(* authentication, its repository creation and every file transfer it       *)
(* attempted succeed; a failure of any of them gives a non-zero exit code.  *)
C14_ExitCodeReportsFailure ==
    (Exited /\ script.code = 0) =>
        ~(AuthenticationFailed \/ RepositoryCreationFailed \/ TransferFailed)

(* The part of C14 that the code does keep: push_to_huggingface.py exits 0  *)
(* only if nothing failed.                                                  *)
PushExitCodeReportsFailure ==
    (Exited /\ script.name = "push_to_huggingface.py" /\ script.code = 0) =>
        ~(AuthenticationFailed \/ RepositoryCreationFailed \/ TransferFailed)

(* the steps of push_to_huggingface.main, in order *)
PushOrder ==
    <<"get_token", "whoami", "create_repo", "git remote remove", "git remote add",
      "git push">>

(* C19: in push_to_huggingface.main the steps run in the order token,       *)
(* whoami, create_repo, git remote remove/add, git push; the token is       *)
(* HF_TOKEN when that is set and non-empty and is prompted for exactly      *)
(* otherwise; a raise of whoami or create_repo is the last step and the     *)
(* exit code is 1; a non-zero `git remote add` is followed by the push;     *)
(* the success message is printed only after git push returned 0.           *)
C19_PushStepsInOrder ==
    (script.name = "push_to_huggingface.py") =>
        /\ Len(script.trace) <= Len(PushOrder)
        /\ \A k \in DOMAIN script.trace : script.trace[k].step = PushOrder[k]
        /\ script.prompted <=> script.env # "set"
        /\ ~script.prompted => script.token = "hf_env"
        /\ \A k \in DOMAIN script.trace :
              (script.trace[k].step \in {"whoami", "create_repo"}
               /\ script.trace[k].result = "raises") =>
                  (k = Len(script.trace) /\ Exited /\ script.code = 1)
        /\ (Exited /\ \E k \in DOMAIN script.trace :
                          script.trace[k] = Step("git remote add", "rc1")) =>
              script.trace[Len(script.trace)].step = "git push"
        /\ "SUCCESS" \in script.printed =>
              (Exited /\ script.trace[Len(script.trace)] = Step("git push", "rc0"))

(* reached: HF_TOKEN empty, the token typed at the prompt, `git remote add` *)
(* non-zero, the push successful                                            *)
C19_Witness ==
    /\ script.name = "push_to_huggingface.py"
    /\ Exited /\ script.code = 0
    /\ script.env = "empty" /\ script.prompted /\ script.token = "hf_typed"
    /\ script.trace[Len(script.trace) - 1] = Step("git remote add", "rc1")
    /\ "SUCCESS" \in script.printed

(* the six checks of test_deployment.main, in order *)
CheckOrder ==
    <<"Required packages", "Required files", "Model loading", "Predictions",
      "Batch prediction", "Input validation">>

AllSixPassed ==
    /\ Len(deploy.results) = Len(CheckOrder)
    /\ \A k \in DOMAIN deploy.results : deploy.results[k].passed

(* C15: test_deployment.main runs its checks in the order packages, files,  *)
(* model loading, predictions, batch prediction, validation; a failure of   *)
(* one of the first three is the last check run and the exit code is 1;     *)
(* no predict call is made on an unloaded predictor; and the run prints     *)
(* 'ALL TESTS PASSED' and exits 0 exactly if all six checks returned true,  *)
(* and exits 1 otherwise.                                                   *)
C15_ReadinessCheckOrder ==
    /\ Len(deploy.results) <= Len(CheckOrder)
    /\ \A k \in DOMAIN deploy.results : deploy.results[k].name = CheckOrder[k]
    /\ \A k \in DOMAIN deploy.results :
          (k <= 3 /\ ~deploy.results[k].passed) =>
              /\ Len(deploy.results) = k
              /\ deploy.pc = "done" /\ deploy.code = 1
              /\ deploy.calls = <<>>
    /\ \A c \in DOMAIN deploy.calls : ~deploy.calls[c].notLoaded
    /\ deploy.pc # "done" => "ALL TESTS PASSED" \notin deploy.printed
    /\ deploy.pc = "done" =>
          /\ ("ALL TESTS PASSED" \in deploy.printed /\ deploy.code = 0) <=> AllSixPassed
          /\ ~AllSixPassed => deploy.code = 1

(* reached: the first three checks pass, the model raises in the batch      *)
(* check, all six checks ran, exit code 1                                   *)
C15_Witness ==
    /\ deploy.pc = "done" /\ deploy.code = 1
    /\ Len(deploy.results) = Len(CheckOrder)
    /\ \A k \in DOMAIN deploy.results : deploy.results[k].passed <=> k # 5
    /\ "SOME TESTS FAILED" \in deploy.printed

(* reached: every check passed *)
AllTestsPassedReached ==
    deploy.pc = "done" /\ AllSixPassed /\ deploy.code = 0

====
